---- MODULE Spec2Model ----
(***************************************************************************)
(* runtext: a context driver (src/driver.rs) that merges the Activity      *)
(* events of N WifiStream triggers (src/triggers/wifi/macos.rs), keeps an  *)
(* activity counter, and issues enter/leave batches to M CommandActions    *)
(* (src/actions/command.rs).                                               *)
(*                                                                         *)
(* Three specifications share the operators that model the code:          *)
(*   Spec      one context driven by drive()                               *)
(*   SpecWifi  one WifiStream polled over a recorded probe sequence        *)
(*   SpecCmd   one CommandAction under arbitrary enter/leave/drop calls    *)
(***************************************************************************)
EXTENDS Integers, Sequences, FiniteSets, TLC

\* ---- bounds ----
MaxTriggers == 2
MaxActions == 2
MaxOrphans == 2
MaxProbes == 5
MaxOps == 4
MaxEntries == 2
MaxContexts == 2
MaxMapLen == 2

\* Network names a probe can report; a stream is configured with one of them.
SSIDs == {"A", "B"}
\* get_wifi_name(): Ok(Some(ssid)) is the ssid, Ok(None) is "None", Err is "Err".
ProbeOk == SSIDs \cup {"None"}
ProbeResults == ProbeOk \cup {"Err"}

VARIABLES
    \* Spec: one context
    trigger_behavior,   \* ctx.trigger_behavior: "And" | "Or"
    streams,            \* the WifiStreams given to select_all, 1..N
    actions,            \* the Vec<Box<Action>> moved into the for_each closure, 1..M
    activity_counter,   \* driver.rs:29
    prev_act_counter,   \* driver.rs:32, value in the last closure call
    act,                \* the Activity of the last closure call, "none" before the first
    batch,              \* the branch the last closure call took: "none" | "enter" | "leave"
    last_call,          \* per action, the last method the driver invoked on it
    driver,             \* the for_each future: "running" | "failed" | "dropped"
    error,              \* what ended the loop: "none" | "trigger" | "action"
    drops,              \* per action, how often Drop::drop ran
    \* SpecWifi: one stream
    wifi,               \* the WifiStream
    probes,             \* the successful probe results so far
    emitted,            \* the Activity items poll returned so far
    wifi_failed,        \* poll returned Err
    \* SpecCmd: one action
    ca,                 \* the CommandAction
    ca_log,             \* the calls made on it
    ca_dropped,         \* it was dropped
    \* SpecCtor: the construction part of drive()
    cfg_actions,        \* ctx.actions in iteration order: <<[name, value], ..>>
    cfg_triggers,       \* ctx.triggers in iteration order
    ctor_pc,            \* "actions" | "triggers" | "listen" | "done"
    ctor_built,         \* [actions, triggers]: how many of each are resolved
    ctor_listening,     \* how many triggers had listen() called
    ctor_spawned,       \* how many processes construction has spawned
    ctor_result,        \* [kind, name]: none, Ok, Panic or the io::Error
    \* SpecValidate: Config::validate
    config,             \* the Multi<Context>: [kind, ctxs], a context is [triggers, actions] (map sizes)
    val_next,           \* position of `for context in ctxs`
    val_result,         \* "none" | "Ok" | "MissingTriggers" | "MissingActions"
    \* SpecMulti: the drivers of several contexts on the one reactor of start()
    contexts,           \* per context: its stream, action, counter and driver future
    thread,             \* the context whose closure the reactor thread is inside, 0 if none
    \* SpecLoop: the loop of one context, call by call
    lp_pc,              \* "idle": for_each polls the merged stream | "batch": the closure runs
    lp_called           \* how many actions of the batch have had their enter / leave run

drv_vars == <<trigger_behavior, streams, actions, activity_counter, prev_act_counter,
              act, batch, last_call, driver, error, drops>>
wifi_vars == <<wifi, probes, emitted, wifi_failed>>
cmd_vars == <<ca, ca_log, ca_dropped>>
ctor_vars == <<cfg_actions, cfg_triggers, ctor_pc, ctor_built, ctor_listening,
               ctor_spawned, ctor_result>>
val_vars == <<config, val_next, val_result>>
multi_vars == <<contexts, thread>>
loop_vars == <<lp_pc, lp_called>>
vars == <<drv_vars, wifi_vars, cmd_vars, ctor_vars, val_vars, multi_vars, loop_vars>>

\* What the actions of each specification leave alone.
not_drv == <<wifi_vars, cmd_vars, ctor_vars, val_vars, multi_vars, loop_vars>>
not_wifi == <<drv_vars, cmd_vars, ctor_vars, val_vars, multi_vars, loop_vars>>
not_cmd == <<drv_vars, wifi_vars, ctor_vars, val_vars, multi_vars, loop_vars>>
not_ctor == <<drv_vars, wifi_vars, cmd_vars, val_vars, multi_vars, loop_vars>>
not_val == <<drv_vars, wifi_vars, cmd_vars, ctor_vars, multi_vars, loop_vars>>
not_multi == <<drv_vars, wifi_vars, cmd_vars, ctor_vars, val_vars, loop_vars>>
not_loop == <<wifi_vars, cmd_vars, ctor_vars, val_vars, multi_vars>>

\* ---- WifiStream ----

\* WifiStream::new: was_same starts false.
WifiStream_new(name) == [name |-> name, was_same |-> FALSE]

\* Mutant of poll: level detection, Inactive on every probe that does not match.
poll_level(self, new_ssid) ==
    IF new_ssid = "Err" THEN [self |-> self, out |-> "Err"]
    ELSE IF new_ssid = self.name /\ ~self.was_same
        THEN [self |-> [self EXCEPT !.was_same = TRUE], out |-> "Active"]
    ELSE IF new_ssid # self.name
        THEN [self |-> [self EXCEPT !.was_same = FALSE], out |-> "Inactive"]
    ELSE [self |-> self, out |-> "NotReady"]

\* Mutant of poll: a switched-off radio (Ok(None)) is taken for "no change".
poll_none_ignored(self, new_ssid) ==
    IF new_ssid = "Err" THEN [self |-> self, out |-> "Err"]
    ELSE IF new_ssid = "None" THEN [self |-> self, out |-> "NotReady"]
    ELSE IF new_ssid = self.name /\ ~self.was_same
        THEN [self |-> [self EXCEPT !.was_same = TRUE], out |-> "Active"]
    ELSE IF new_ssid # self.name /\ self.was_same
        THEN [self |-> [self EXCEPT !.was_same = FALSE], out |-> "Inactive"]
    ELSE [self |-> self, out |-> "NotReady"]

\* One call of poll() whose timeout has fired, with the probe's result.
\* out: "Active" | "Inactive" (Ready(Some(..))), "NotReady", "Err".
poll(self, new_ssid) ==
    IF new_ssid = "Err" THEN [self |-> self, out |-> "Err"]
    ELSE IF new_ssid # "None" THEN
        LET is_same == (new_ssid = self.name) IN
        IF is_same /\ ~self.was_same
            THEN [self |-> [self EXCEPT !.was_same = TRUE], out |-> "Active"]
        ELSE IF ~is_same /\ self.was_same
            THEN [self |-> [self EXCEPT !.was_same = FALSE], out |-> "Inactive"]
        ELSE [self |-> self, out |-> "NotReady"]
    ELSE
        IF self.was_same
            THEN [self |-> [self EXCEPT !.was_same = FALSE], out |-> "Inactive"]
        ELSE [self |-> self, out |-> "NotReady"]

\* ---- CommandAction ----

\* child is the Option<Child>: "None", or the state of the recorded process,
\* "Alive" or "Exited" (it ended by itself; nothing in the code waits on it).
\* orphans counts the processes spawned by enter that are alive and are not
\* the recorded child.  exit_command is exit_command.is_some().
ChildStates == {"None", "Alive", "Exited"}

CommandAction_new(has_exit) == [child |-> "None", orphans |-> 0, exit_command |-> has_exit]

\* Number of live processes spawned by enter of this action.
Live(self) == self.orphans + (IF self.child = "Alive" THEN 1 ELSE 0)

\* The system call, if any, that fails during one enter or leave call.  The
\* code returns at the first failure, so one fault per call covers every outcome.
IoFaults == {"none", "spawn", "kill", "wait"}

\* Child::kill on the taken handle.  A live process is killed.  On a process
\* that has already exited the result depends on the platform (kill(2) on
\* the unreaped pid succeeds, TerminateProcess fails), so it is an input.
kill(child, fault) == IF child = "Exited" /\ fault = "kill" THEN "Err" ELSE "Ok"

\* Mutant of enter_impl: a failed spawn is tried once more and the record is
\* cleared, the handle of a recorded child being dropped.
enter_impl_retry_and_clear(self, fault) ==
    IF fault = "spawn"
        THEN [self |-> [self EXCEPT !.child = "None",
                                    !.orphans = @ + (IF self.child = "Alive" THEN 1 ELSE 0)],
              res |-> "Err", exit_spawned |-> FALSE, steps |-> <<"spawn", "spawn">>]
    ELSE [self |-> [self EXCEPT !.child = "Alive",
                                !.orphans = @ + (IF self.child = "Alive" THEN 1 ELSE 0)],
          res |-> "Ok", exit_spawned |-> FALSE, steps |-> <<"spawn">>]

\* self.child = Some(self.enter_command.spawn()?).  The `?` returns before the
\* assignment.  The assignment drops the previous Child handle, and dropping
\* a Child neither kills nor waits: a live previous child becomes an orphan.
\* steps lists what the call did, in order.
enter_impl(self, fault) ==
    IF fault = "spawn"
        THEN [self |-> self, res |-> "Err", exit_spawned |-> FALSE, steps |-> <<"spawn">>]
    ELSE [self |-> [self EXCEPT !.child = "Alive",
                                !.orphans = @ + (IF self.child = "Alive" THEN 1 ELSE 0)],
          res |-> "Ok", exit_spawned |-> FALSE, steps |-> <<"spawn">>]

\* Mutant of leave_impl: the record is cleared and nothing is killed.
leave_impl_without_kill(self, fault) ==
    [self |-> [self EXCEPT !.child = "None",
                           !.orphans = @ + (IF self.child = "Alive" THEN 1 ELSE 0)],
     res |-> "Ok", exit_spawned |-> FALSE, steps |-> <<"take">>]

\* Mutant of leave_impl: kill is called on the record whether or not it holds
\* a child, and having none is an error.
leave_impl_kill_always(self, fault) ==
    LET cleared == [self EXCEPT !.child = "None"]
    IN  IF self.child = "None" \/ kill(self.child, fault) = "Err"
            THEN [self |-> cleared, res |-> "Err", exit_spawned |-> FALSE,
                  steps |-> <<"take", "kill">>]
        ELSE [self |-> cleared, res |-> "Ok", exit_spawned |-> FALSE,
              steps |-> <<"take", "kill">>]

\* Mutant of leave_impl: the leave command runs first, and the record is
\* cleared only when the kill succeeded.
leave_impl_exit_first(self, fault) ==
    LET exit_steps == IF ~self.exit_command THEN <<>>
                      ELSE IF fault = "spawn" THEN <<"spawn">>
                      ELSE <<"spawn", "wait">>
        exit_failed == self.exit_command /\ fault \in {"spawn", "wait"}
        spawned == self.exit_command /\ fault # "spawn"
    IN  IF exit_failed
            THEN [self |-> self, res |-> "Err", exit_spawned |-> spawned,
                  steps |-> exit_steps]
        ELSE IF self.child # "None" /\ kill(self.child, fault) = "Err"
            THEN [self |-> self, res |-> "Err", exit_spawned |-> spawned,
                  steps |-> exit_steps \o <<"kill">>]
        ELSE [self |-> [self EXCEPT !.child = "None"], res |-> "Ok",
              exit_spawned |-> spawned,
              steps |-> exit_steps \o (IF self.child # "None" THEN <<"kill", "take">>
                                       ELSE <<"take">>)]

\* take() clears the record first; kill()? returns early on error; then the
\* leave command, if any, is spawned and waited for.  steps lists what the
\* call did, in order.
leave_impl(self, fault) ==
    LET taken == self.child
        cleared == [self EXCEPT !.child = "None"]
        killed == IF taken # "None" THEN <<"take", "kill">> ELSE <<"take">>
    IN  IF taken # "None" /\ kill(taken, fault) = "Err"
            THEN [self |-> cleared, res |-> "Err", exit_spawned |-> FALSE,
                  steps |-> killed]
        ELSE IF self.exit_command
            THEN IF fault = "spawn"
                    THEN [self |-> cleared, res |-> "Err", exit_spawned |-> FALSE,
                          steps |-> killed \o <<"spawn">>]
                 ELSE IF fault = "wait"
                    THEN [self |-> cleared, res |-> "Err", exit_spawned |-> TRUE,
                          steps |-> killed \o <<"spawn", "wait">>]
                 ELSE [self |-> cleared, res |-> "Ok", exit_spawned |-> TRUE,
                       steps |-> killed \o <<"spawn", "wait">>]
        ELSE [self |-> cleared, res |-> "Ok", exit_spawned |-> FALSE,
              steps |-> killed]

\* Mutant of drop: the child is taken but not killed, so a live one lives on.
drop_without_kill(self) ==
    [self EXCEPT !.child = "None",
                 !.orphans = @ + (IF self.child = "Alive" THEN 1 ELSE 0)]

\* Drop: take the child and kill it, ignoring the result.
drop(self) == [self EXCEPT !.child = "None"]

\* The recorded process ends by itself.
child_exits(self) == [self EXCEPT !.child = "Exited"]

\* The faults that can show in one call: enter only spawns; leave kills when a
\* child is recorded (an error only if it has exited) and spawns and waits
\* when there is a leave command.
possible_faults(self, entering) ==
    IF entering THEN {"none", "spawn"}
    ELSE {"none"} \cup (IF self.child = "Exited" THEN {"kill"} ELSE {})
                  \cup (IF self.exit_command THEN {"spawn", "wait"} ELSE {})

\* Would this enter keep orphans within the bound of the model?
WithinOrphanBound(self) == self.child # "Alive" \/ self.orphans < MaxOrphans

\* ---- drive ----

\* match act { Active => counter += 1, Inactive => counter -= 1 }
apply_activity(counter, activity) ==
    IF activity = "Active" THEN counter + 1 ELSE counter - 1

\* Mutant of should_enter: And enters as soon as one trigger is active.
should_enter_and_any(behavior, counter, prev, ntriggers) ==
    \/ behavior = "And" /\ counter > 0
    \/ behavior = "Or" /\ counter > 0 /\ prev = 0

\* Mutant of should_enter: Or is level-triggered, without the prev == 0 test.
should_enter_or_level(behavior, counter, prev, ntriggers) ==
    \/ behavior = "And" /\ counter = ntriggers
    \/ behavior = "Or" /\ counter > 0

\* is_all_active_and || is_or_and_has_active
should_enter(behavior, counter, prev, ntriggers) ==
    \/ behavior = "And" /\ counter = ntriggers
    \/ behavior = "Or" /\ counter > 0 /\ prev = 0

\* Mutant of issue_batch: the calls stop at the first one that fails, the
\* actions after it are not invoked.
issue_batch_until_error(acts, enter, faults) ==
    [a \in DOMAIN acts |->
        IF \E b \in DOMAIN acts : b < a /\ faults[b] # "none"
            THEN [self |-> acts[a], res |-> "NotCalled", exit_spawned |-> FALSE,
                  steps |-> <<>>]
        ELSE IF enter THEN enter_impl(acts[a], faults[a])
        ELSE leave_impl(acts[a], faults[a])]

\* actions.iter_mut().map(|act| act.enter()) / .map(|act| act.leave()),
\* collected by join_all: enter and leave run when called and return a
\* finished future, so every action is invoked, whatever the others return.
issue_batch(acts, enter, faults) ==
    [a \in DOMAIN acts |->
        IF enter THEN enter_impl(acts[a], faults[a])
        ELSE leave_impl(acts[a], faults[a])]

\* join_all over the futures of one batch: Err as soon as one call failed.
join_all(results) ==
    IF \E a \in DOMAIN results : results[a].res = "Err" THEN "Err" ELSE "Ok"

\* for_each: an Err of the closure's future ends the loop with that error.
for_each_after_batch(joined) == IF joined = "Err" THEN "failed" ELSE "running"

\* Mutant of for_each_after_stream_error: the failed stream is dropped from the
\* merge and the loop goes on with the others.
keep_driving_after_stream_error == "running"

\* select_all yields the stream's Err and for_each ends the loop with it.
for_each_after_stream_error == "failed"

NTriggers == Len(streams)
NActions == Len(actions)

DrvInit ==
    /\ trigger_behavior \in {"And", "Or"}
    /\ \E n \in 1..MaxTriggers :
         streams \in [1..n -> {WifiStream_new(name) : name \in SSIDs}]
    /\ \E m \in 1..MaxActions :
         /\ actions \in [1..m -> {CommandAction_new(e) : e \in BOOLEAN}]
         /\ last_call = [a \in 1..m |-> "none"]
         /\ drops = [a \in 1..m |-> 0]
    /\ activity_counter = 0
    /\ prev_act_counter = 0
    /\ act = "none"
    /\ batch = "none"
    /\ driver = "running"
    /\ error = "none"

DrvIdle ==
    /\ trigger_behavior = "And"
    /\ streams = <<>>
    /\ actions = <<>>
    /\ last_call = <<>>
    /\ drops = <<>>
    /\ activity_counter = 0
    /\ prev_act_counter = 0
    /\ act = "none"
    /\ batch = "none"
    /\ driver = "dropped"
    /\ error = "none"

\* A stream's timeout fires, its poll returns an Activity, select_all hands it
\* to the for_each closure, which runs the batch to completion (the action
\* futures are future::result, already resolved when created).
Event(t, new_ssid, faults) ==
    LET p == poll(streams[t], new_ssid)
        counter == apply_activity(activity_counter, p.out)
        enter == should_enter(trigger_behavior, counter, activity_counter, NTriggers)
        results == issue_batch(actions, enter, faults)
        joined == join_all(results)
    IN  /\ driver = "running"
        /\ p.out \in {"Active", "Inactive"}
        /\ \A a \in 1..NActions : faults[a] \in possible_faults(actions[a], enter)
        /\ enter => \A a \in 1..NActions : WithinOrphanBound(actions[a])
        /\ streams' = [streams EXCEPT ![t] = p.self]
        /\ prev_act_counter' = activity_counter
        /\ activity_counter' = counter
        /\ act' = p.out
        /\ batch' = IF enter THEN "enter" ELSE "leave"
        /\ last_call' = [a \in 1..NActions |->
                            IF results[a].res = "NotCalled" THEN last_call[a]
                            ELSE IF enter THEN "enter" ELSE "leave"]
        /\ actions' = [a \in 1..NActions |-> results[a].self]
        /\ driver' = for_each_after_batch(joined)
        /\ error' = IF joined = "Err" THEN "action" ELSE error
        /\ UNCHANGED <<trigger_behavior, drops, not_drv>>

\* A poll that finds no edge: nothing is emitted, nothing changes.
NoEvent(t, new_ssid) ==
    LET p == poll(streams[t], new_ssid)
    IN  /\ driver = "running"
        /\ p.out = "NotReady"
        /\ streams' = [streams EXCEPT ![t] = p.self]
        /\ UNCHANGED <<trigger_behavior, actions, activity_counter, prev_act_counter,
                       act, batch, last_call, driver, error, drops, not_drv>>

\* The probe of a stream fails: poll returns Err.
StreamError(t) ==
    LET p == poll(streams[t], "Err")
    IN  /\ driver = "running"
        /\ p.out = "Err"
        /\ streams' = [streams EXCEPT ![t] = p.self]
        /\ driver' = for_each_after_stream_error
        /\ error' = "trigger"
        /\ UNCHANGED <<trigger_behavior, actions, activity_counter, prev_act_counter,
                       act, batch, last_call, drops, not_drv>>

\* The executor discards the finished driver future; the closure's actions
\* are dropped with it.
Discard ==
    /\ driver = "failed"
    /\ driver' = "dropped"
    /\ actions' = [a \in 1..NActions |-> drop(actions[a])]
    /\ drops' = [a \in 1..NActions |-> drops[a] + 1]
    /\ UNCHANGED <<trigger_behavior, streams, activity_counter, prev_act_counter,
                   act, batch, last_call, error, not_drv>>

\* The process an action has recorded ends by itself.
ChildExits(a) ==
    /\ driver # "dropped"
    /\ actions[a].child = "Alive"
    /\ actions' = [actions EXCEPT ![a] = child_exits(@)]
    /\ UNCHANGED <<trigger_behavior, streams, activity_counter, prev_act_counter,
                   act, batch, last_call, driver, error, drops, not_drv>>

\* ---- one WifiStream ----

WifiInit ==
    /\ wifi \in {WifiStream_new(name) : name \in SSIDs}
    /\ probes = <<>>
    /\ emitted = <<>>
    /\ wifi_failed = FALSE

WifiIdle ==
    /\ wifi = WifiStream_new("A")
    /\ probes = <<>>
    /\ emitted = <<>>
    /\ wifi_failed = TRUE

WifiPoll(new_ssid) ==
    LET p == poll(wifi, new_ssid)
    IN  /\ ~wifi_failed
        /\ Len(probes) < MaxProbes
        /\ p.out # "Err"
        /\ wifi' = p.self
        /\ probes' = Append(probes, new_ssid)
        /\ emitted' = IF p.out = "NotReady" THEN emitted ELSE Append(emitted, p.out)
        /\ UNCHANGED <<wifi_failed, not_wifi>>

WifiPollError ==
    LET p == poll(wifi, "Err")
    IN  /\ ~wifi_failed
        /\ p.out = "Err"
        /\ wifi' = p.self
        /\ wifi_failed' = TRUE
        /\ UNCHANGED <<probes, emitted, not_wifi>>

\* ---- one CommandAction ----

CmdInit ==
    /\ ca \in {CommandAction_new(e) : e \in BOOLEAN}
    /\ ca_log = <<>>
    /\ ca_dropped = FALSE

CmdIdle ==
    /\ ca = CommandAction_new(FALSE)
    /\ ca_log = <<>>
    /\ ca_dropped = TRUE

\* One call on the action: what it returned and did, and the action before
\* and after it.
LogEntry(op, r, before) ==
    [op |-> op, res |-> r.res, exit_spawned |-> r.exit_spawned, before |-> before.child,
     steps |-> r.steps, self |-> before, after |-> r.self]

CmdEnter(fault) ==
    LET r == enter_impl(ca, fault)
    IN  /\ ~ca_dropped
        /\ Len(ca_log) < MaxOps
        /\ fault \in possible_faults(ca, TRUE)
        /\ WithinOrphanBound(ca)
        /\ ca' = r.self
        /\ ca_log' = Append(ca_log, LogEntry("enter", r, ca))
        /\ UNCHANGED <<ca_dropped, not_cmd>>

CmdLeave(fault) ==
    LET r == leave_impl(ca, fault)
    IN  /\ ~ca_dropped
        /\ Len(ca_log) < MaxOps
        /\ fault \in possible_faults(ca, FALSE)
        /\ ca' = r.self
        /\ ca_log' = Append(ca_log, LogEntry("leave", r, ca))
        /\ UNCHANGED <<ca_dropped, not_cmd>>

CmdDrop ==
    /\ ~ca_dropped
    /\ ca' = drop(ca)
    /\ ca_log' = Append(ca_log, [op |-> "drop", res |-> "Ok", exit_spawned |-> FALSE,
                                 before |-> ca.child,
                                 steps |-> IF ca.child # "None" THEN <<"take", "kill">>
                                           ELSE <<"take">>,
                                 self |-> ca, after |-> drop(ca)])
    /\ ca_dropped' = TRUE
    /\ UNCHANGED <<not_cmd>>

CmdChildExits ==
    /\ ca.child = "Alive"
    /\ ca' = child_exits(ca)
    /\ UNCHANGED <<ca_log, ca_dropped, not_cmd>>

\* An orphan ends by itself.
CmdOrphanExits ==
    /\ ca.orphans > 0
    /\ ca' = [ca EXCEPT !.orphans = @ - 1]
    /\ UNCHANGED <<ca_log, ca_dropped, not_cmd>>

\* ---- drive: construction ----

\* A command line is a sequence of parts, " " a run of whitespace.
\* line.trim().split(" ").filter(|part| part.len() > 0)
line_parts(line) == SelectSeq(line, LAMBDA part : part # " ")

\* Option::None of a line or key.
Absent == <<"(absent)">>

\* What resolving an entry gives: the component, a panic, or an io::Error.
Resolved == [kind |-> "Ok", name |-> "-"]
Panicked == [kind |-> "Panic", name |-> "-"]
NoResult == [kind |-> "none", name |-> "-"]
InvalidData == [kind |-> "InvalidData", name |-> "-"]

\* command_from_line: parts.next().expect("Missing command name.") panics
\* when no part is left.
command_from_line(line) ==
    IF line_parts(line) = <<>> THEN Panicked ELSE Resolved

\* CommandAction::new(enter, exit): both lines go through command_from_line.
CommandAction_new_from_lines(enter, exit) ==
    IF command_from_line(enter) = Panicked THEN Panicked
    ELSE IF exit # Absent /\ command_from_line(exit) = Panicked THEN Panicked
    ELSE Resolved

\* The serde_yaml::Value of an action entry: a string, a mapping with the
\* "enter" and "leave" keys (Absent when the key is missing or no string),
\* or another kind of value.
ActionValues ==
    {[kind |-> "String", enter |-> l, leave |-> Absent] : l \in {<<"cmd">>, <<>>, <<" ">>}}
    \cup {[kind |-> "Mapping", enter |-> Absent, leave |-> Absent],
          [kind |-> "Mapping", enter |-> <<"cmd">>, leave |-> <<"cmd">>],
          [kind |-> "Mapping", enter |-> <<>>, leave |-> <<"cmd">>],
          [kind |-> "Other", enter |-> Absent, leave |-> Absent]}

\* The Value of a trigger entry: a string (the ssid) or another kind.
TriggerValues == {[kind |-> "String"], [kind |-> "Other"]}

ActionNames == {"command", " command ", "bogus"}
TriggerNames == {"wifi", "bogus"}

\* str::trim on the names above.
trim(name) == IF name = " command " THEN "command" ELSE name

\* CommandAction::from_config
CommandAction_from_config(value) ==
    IF value.kind = "String" THEN CommandAction_new_from_lines(value.enter, Absent)
    ELSE IF value.kind = "Mapping" THEN
        IF value.enter = Absent THEN InvalidData
        ELSE CommandAction_new_from_lines(value.enter, value.leave)
    ELSE InvalidData

\* WifiTrigger::from_config
WifiTrigger_from_config(value) ==
    IF value.kind = "String" THEN Resolved ELSE InvalidData

\* get_action: the action, a panic, or the io::Error
get_action(name, value) ==
    IF trim(name) = "command" THEN CommandAction_from_config(value)
    ELSE [kind |-> "UnknownAction", name |-> name]

\* get_trigger
get_trigger(name, value) ==
    IF trim(name) = "wifi" THEN WifiTrigger_from_config(value)
    ELSE [kind |-> "UnknownTrigger", name |-> name]

\* The entries of a HashMap, keys distinct, in some iteration order.
Entries(names, values) ==
    UNION {{e \in [1..n -> [name : names, value : values]] :
              \A i, j \in 1..n : i # j => e[i].name # e[j].name} : n \in 1..MaxEntries}

CtorInit ==
    /\ cfg_actions \in Entries(ActionNames, ActionValues)
    /\ cfg_triggers \in Entries(TriggerNames, TriggerValues)
    /\ ctor_pc = "actions"
    /\ ctor_built = [actions |-> 0, triggers |-> 0]
    /\ ctor_listening = 0
    /\ ctor_spawned = 0
    /\ ctor_result = NoResult

CtorIdle ==
    /\ cfg_actions = <<>>
    /\ cfg_triggers = <<>>
    /\ ctor_pc = "done"
    /\ ctor_built = [actions |-> 0, triggers |-> 0]
    /\ ctor_listening = 0
    /\ ctor_spawned = 0
    /\ ctor_result = NoResult

\* One step of ctx.actions.iter().map(get_action).collect::<io::Result<_>>()?
CtorResolveAction ==
    LET i == ctor_built.actions + 1
        r == get_action(cfg_actions[i].name, cfg_actions[i].value)
    IN  /\ ctor_pc = "actions"
        /\ IF r = Resolved
             THEN /\ ctor_built' = [ctor_built EXCEPT !.actions = i]
                  /\ ctor_pc' = IF i = Len(cfg_actions) THEN "triggers" ELSE "actions"
                  /\ ctor_result' = ctor_result
             ELSE /\ ctor_built' = [ctor_built EXCEPT !.actions = 0]
                  /\ ctor_pc' = "done"
                  /\ ctor_result' = r
        /\ UNCHANGED <<cfg_actions, cfg_triggers, ctor_listening, ctor_spawned, not_ctor>>

\* One step of ctx.triggers.iter().map(get_trigger).collect::<io::Result<_>>()?
CtorResolveTrigger ==
    LET j == ctor_built.triggers + 1
        r == get_trigger(cfg_triggers[j].name, cfg_triggers[j].value)
    IN  /\ ctor_pc = "triggers"
        /\ IF r = Resolved
             THEN /\ ctor_built' = [ctor_built EXCEPT !.triggers = j]
                  /\ ctor_pc' = IF j = Len(cfg_triggers) THEN "listen" ELSE "triggers"
                  /\ ctor_result' = ctor_result
             ELSE /\ ctor_built' = [actions |-> 0, triggers |-> 0]
                  /\ ctor_pc' = "done"
                  /\ ctor_result' = r
        /\ UNCHANGED <<cfg_actions, cfg_triggers, ctor_listening, ctor_spawned, not_ctor>>

\* select_all consumes the lazy .map(|t| t.listen(..)): one listen per trigger,
\* after the last one Ok(driver) is returned.
CtorListen ==
    /\ ctor_pc = "listen"
    /\ ctor_listening' = ctor_listening + 1
    /\ IF ctor_listening' = Len(cfg_triggers)
         THEN ctor_pc' = "done" /\ ctor_result' = Resolved
         ELSE ctor_pc' = "listen" /\ ctor_result' = ctor_result
    /\ UNCHANGED <<cfg_actions, cfg_triggers, ctor_built, ctor_spawned, not_ctor>>

\* ---- Config::validate ----

\* Mutant of Context_validate: the actions are looked at first.
Context_validate_actions_first(ctx) ==
    IF ctx.actions = 0 THEN "MissingActions"
    ELSE IF ctx.triggers = 0 THEN "MissingTriggers"
    ELSE "Ok"

\* Context::validate on a context with that many triggers and actions.
Context_validate(ctx) ==
    IF ctx.triggers = 0 THEN "MissingTriggers"
    ELSE IF ctx.actions = 0 THEN "MissingActions"
    ELSE "Ok"

Contexts == [triggers : 0..MaxMapLen, actions : 0..MaxMapLen]

\* Multi<Context>: Single(ctx) or Multiple(Vec<ctx>).
Configs ==
    {[kind |-> "Single", ctxs |-> <<c>>] : c \in Contexts}
    \cup {[kind |-> "Multiple", ctxs |-> cs] :
            cs \in UNION {[1..n -> Contexts] : n \in 0..MaxContexts}}

ValInit ==
    /\ config \in Configs
    /\ val_next = 1
    /\ val_result = "none"

ValIdle ==
    /\ config = [kind |-> "Multiple", ctxs |-> <<>>]
    /\ val_next = 1
    /\ val_result = "Ok"

\* Multi::Single(ref ctx) => ctx.validate()
ValidateSingle ==
    /\ val_result = "none"
    /\ config.kind = "Single"
    /\ val_result' = Context_validate(config.ctxs[1])
    /\ val_next' = 2
    /\ UNCHANGED <<config, not_val>>

\* One iteration of `for context in ctxs`: return the error, or go on.
ValidateContext ==
    /\ val_result = "none"
    /\ config.kind = "Multiple"
    /\ val_next <= Len(config.ctxs)
    /\ val_next' = val_next + 1
    /\ val_result' = IF Context_validate(config.ctxs[val_next]) = "Ok" THEN "none"
                     ELSE Context_validate(config.ctxs[val_next])
    /\ UNCHANGED <<config, not_val>>

\* The loop is through: Ok(()).
ValidateOk ==
    /\ val_result = "none"
    /\ config.kind = "Multiple"
    /\ val_next > Len(config.ctxs)
    /\ val_result' = "Ok"
    /\ UNCHANGED <<config, val_next, not_val>>

\* ---- start: several contexts on one reactor ----

\* Mutant of failure_scope: the error of one context's stream ends the loops
\* of all the contexts of the process.
failure_scope_process(i, n) == 1..n

\* The drivers a stream error of context i ends: each context has its own
\* for_each future, given to core.execute on its own.
failure_scope(i, n) == {i}

\* A context with one wifi trigger and one command action, as drive() and
\* core.execute leave it: the loop runs, nothing is counted or spawned yet.
\* pc is "waiting" while leave sits in wait() for the leave command; served
\* says that the context has handled an event after a sibling's stream failed.
Context_new(behavior, has_exit) ==
    [trigger_behavior |-> behavior,
     stream |-> WifiStream_new("A"),
     action |-> CommandAction_new(has_exit),
     activity_counter |-> 0,
     driver |-> "running",
     error |-> "none",
     pc |-> "idle",
     served |-> FALSE]

NContexts == Len(contexts)

MultiInit ==
    /\ \E n \in 1..MaxContexts :
         contexts \in [1..n -> {Context_new(b, e) : b \in {"And", "Or"}, e \in BOOLEAN}]
    /\ thread = 0

MultiIdle ==
    /\ contexts = <<>>
    /\ thread = 0

\* Some sibling of context i has ended on an error of its stream.
SiblingFailed(i) == \E j \in 1..NContexts : j # i /\ contexts[j].error = "trigger"

\* Core::run polls the driver of context i, whose stream has an event: the
\* for_each closure runs on the reactor thread.  enter returns once the
\* process is spawned; a leave with a leave command spawns it and then sits in
\* wait() on that thread.
MultiEvent(i, new_ssid, fault) ==
    LET ctx == contexts[i]
        p == poll(ctx.stream, new_ssid)
        counter == apply_activity(ctx.activity_counter, p.out)
        enter == should_enter(ctx.trigger_behavior, counter, ctx.activity_counter, 1)
        r == issue_batch(<<ctx.action>>, enter, <<fault>>)[1]
        blocks == ~enter /\ r.exit_spawned
        joined == join_all(<<r>>)
    IN  /\ thread = 0
        /\ ctx.driver = "running"
        /\ p.out \in {"Active", "Inactive"}
        /\ fault \in possible_faults(ctx.action, enter) \ {"wait"}
        /\ contexts' = [contexts EXCEPT ![i] =
                          [ctx EXCEPT !.stream = p.self,
                                      !.activity_counter = counter,
                                      !.action = r.self,
                                      !.pc = IF blocks THEN "waiting" ELSE "idle",
                                      !.driver = IF blocks THEN "running"
                                                 ELSE for_each_after_batch(joined),
                                      !.error = IF ~blocks /\ joined = "Err" THEN "action"
                                                ELSE "none",
                                      !.served = SiblingFailed(i)]]
        /\ thread' = IF blocks THEN i ELSE 0
        /\ UNCHANGED not_multi

\* The leave command of context i exits (or wait fails): wait() returns, the
\* batch is complete and the thread goes back to the reactor.
MultiWaitReturns(i, res) ==
    /\ thread = i
    /\ contexts' = [contexts EXCEPT ![i] =
                      [@ EXCEPT !.pc = "idle",
                                !.driver = for_each_after_batch(res),
                                !.error = IF res = "Err" THEN "action" ELSE "none"]]
    /\ thread' = 0
    /\ UNCHANGED not_multi

\* The probe of context i's stream fails: that context's for_each ends with
\* the error, which map_err prints.
MultiStreamError(i) ==
    /\ thread = 0
    /\ contexts[i].driver = "running"
    /\ poll(contexts[i].stream, "Err").out = "Err"
    /\ contexts' = [j \in 1..NContexts |->
                      IF j \in failure_scope(i, NContexts) /\ contexts[j].driver = "running"
                          THEN [contexts[j] EXCEPT !.driver = for_each_after_stream_error,
                                                   !.error = "trigger"]
                      ELSE contexts[j]]
    /\ UNCHANGED <<thread, not_multi>>

\* The reactor discards the finished driver of context i; its action is
\* dropped with it.
MultiDiscard(i) ==
    /\ thread = 0
    /\ contexts[i].driver = "failed"
    /\ contexts' = [contexts EXCEPT ![i] = [@ EXCEPT !.driver = "dropped",
                                                      !.action = drop(@)]]
    /\ UNCHANGED <<thread, not_multi>>

\* ---- drive: the loop call by call ----

\* Mutant of for_each_polls_stream: the stream is polled for the next event
\* while the future of the last one is pending.
for_each_polls_stream_always(pc) == TRUE

\* for_each polls the stream for the next item only when the future the
\* closure returned for the last item has finished.
for_each_polls_stream(pc) == pc = "idle"

LoopInit ==
    /\ lp_pc = "idle"
    /\ lp_called = 0

LoopIdle ==
    /\ lp_pc = "idle"
    /\ lp_called = 0

\* for_each takes the next item of select_all: the closure starts, moves the
\* counter and picks the branch (driver.rs:32-42).
LoopConsume(t, new_ssid) ==
    LET p == poll(streams[t], new_ssid)
        counter == apply_activity(activity_counter, p.out)
        enter == should_enter(trigger_behavior, counter, activity_counter, NTriggers)
    IN  /\ driver = "running"
        /\ for_each_polls_stream(lp_pc)
        /\ p.out \in {"Active", "Inactive"}
        /\ streams' = [streams EXCEPT ![t] = p.self]
        /\ prev_act_counter' = activity_counter
        /\ activity_counter' = counter
        /\ act' = p.out
        /\ batch' = IF enter THEN "enter" ELSE "leave"
        /\ lp_pc' = "batch"
        /\ lp_called' = 0
        /\ UNCHANGED <<trigger_behavior, actions, last_call, driver, error, drops, not_loop>>

\* The closure calls enter or leave of the next action (driver.rs:46, 54);
\* the call runs to its end before the next one is made.
LoopCall(fault) ==
    LET a == lp_called + 1
        enter == (batch = "enter")
        r == IF enter THEN enter_impl(actions[a], fault) ELSE leave_impl(actions[a], fault)
    IN  /\ driver = "running"
        /\ lp_pc = "batch"
        /\ a <= NActions
        /\ fault \in possible_faults(actions[a], enter)
        /\ enter => WithinOrphanBound(actions[a])
        /\ actions' = [actions EXCEPT ![a] = r.self]
        /\ last_call' = [last_call EXCEPT ![a] = batch]
        /\ error' = IF r.res = "Err" THEN "action" ELSE error
        /\ lp_called' = a
        /\ UNCHANGED <<trigger_behavior, streams, activity_counter, prev_act_counter, act,
                       batch, driver, drops, lp_pc, not_loop>>

\* join_all has every result: the closure's future is finished.
LoopBatchDone ==
    /\ driver = "running"
    /\ lp_pc = "batch"
    /\ lp_called = NActions
    /\ lp_pc' = "idle"
    /\ driver' = for_each_after_batch(IF error = "action" THEN "Err" ELSE "Ok")
    /\ UNCHANGED <<trigger_behavior, streams, actions, activity_counter, prev_act_counter,
                   act, batch, last_call, error, drops, lp_called, not_loop>>

\* The probe of a stream fails when for_each polls it.
LoopStreamError(t) ==
    /\ driver = "running"
    /\ for_each_polls_stream(lp_pc)
    /\ poll(streams[t], "Err").out = "Err"
    /\ driver' = for_each_after_stream_error
    /\ error' = "trigger"
    /\ UNCHANGED <<trigger_behavior, streams, actions, activity_counter, prev_act_counter,
                   act, batch, last_call, drops, loop_vars, not_loop>>

\* ---- specifications ----

Init == DrvInit /\ WifiIdle /\ CmdIdle /\ CtorIdle /\ ValIdle /\ MultiIdle /\ LoopIdle

Next ==
    \/ \E t \in 1..NTriggers, new_ssid \in ProbeOk, faults \in [1..NActions -> IoFaults] :
         Event(t, new_ssid, faults)
    \/ \E t \in 1..NTriggers, new_ssid \in ProbeOk : NoEvent(t, new_ssid)
    \/ \E t \in 1..NTriggers : StreamError(t)
    \/ Discard
    \/ \E a \in 1..NActions : ChildExits(a)

Spec == Init /\ [][Next]_vars

InitWifi == DrvIdle /\ WifiInit /\ CmdIdle /\ CtorIdle /\ ValIdle /\ MultiIdle /\ LoopIdle

NextWifi ==
    \/ \E new_ssid \in ProbeOk : WifiPoll(new_ssid)
    \/ WifiPollError

SpecWifi == InitWifi /\ [][NextWifi]_vars

InitCmd == DrvIdle /\ WifiIdle /\ CmdInit /\ CtorIdle /\ ValIdle /\ MultiIdle /\ LoopIdle

NextCmd ==
    \/ \E fault \in IoFaults : CmdEnter(fault)
    \/ \E fault \in IoFaults : CmdLeave(fault)
    \/ CmdDrop
    \/ CmdChildExits
    \/ CmdOrphanExits

SpecCmd == InitCmd /\ [][NextCmd]_vars

InitCtor == DrvIdle /\ WifiIdle /\ CmdIdle /\ CtorInit /\ ValIdle /\ MultiIdle /\ LoopIdle

NextCtor ==
    \/ CtorResolveAction
    \/ CtorResolveTrigger
    \/ CtorListen

SpecCtor == InitCtor /\ [][NextCtor]_vars

InitValidate == DrvIdle /\ WifiIdle /\ CmdIdle /\ CtorIdle /\ ValInit /\ MultiIdle /\ LoopIdle

NextValidate ==
    \/ ValidateSingle
    \/ ValidateContext
    \/ ValidateOk

SpecValidate == InitValidate /\ [][NextValidate]_vars

InitMulti == DrvIdle /\ WifiIdle /\ CmdIdle /\ CtorIdle /\ ValIdle /\ MultiInit /\ LoopIdle

NextMulti ==
    \/ \E i \in 1..NContexts, new_ssid \in ProbeOk, fault \in IoFaults :
         MultiEvent(i, new_ssid, fault)
    \/ \E i \in 1..NContexts, res \in {"Ok", "Err"} : MultiWaitReturns(i, res)
    \/ \E i \in 1..NContexts : MultiStreamError(i)
    \/ \E i \in 1..NContexts : MultiDiscard(i)

SpecMulti == InitMulti /\ [][NextMulti]_vars

InitLoop == DrvInit /\ WifiIdle /\ CmdIdle /\ CtorIdle /\ ValIdle /\ MultiIdle /\ LoopInit

NextLoop ==
    \/ \E t \in 1..NTriggers, new_ssid \in ProbeOk : LoopConsume(t, new_ssid)
    \/ \E fault \in IoFaults : LoopCall(fault)
    \/ LoopBatchDone
    \/ \E t \in 1..NTriggers : LoopStreamError(t)

SpecLoop == InitLoop /\ [][NextLoop]_vars

\* ---- claims ----

ActiveTriggers == {t \in 1..NTriggers : streams[t].was_same}

\* C1: under And, after every processed event the batch issued was enter iff
\* the updated counter equals N (iff all N triggers are active), and leave
\* otherwise; the batch went to every action.
C1_AndEnterIffAllActive ==
    (trigger_behavior = "And" /\ batch # "none") =>
        /\ (act = "Active" => activity_counter = prev_act_counter + 1)
        /\ (act = "Inactive" => activity_counter = prev_act_counter - 1)
        /\ (batch = "enter") <=> (activity_counter = NTriggers)
        /\ (batch = "leave") <=> (activity_counter # NTriggers)
        /\ (batch = "enter") <=> (\A t \in 1..NTriggers : streams[t].was_same)
        /\ \A a \in 1..NActions : last_call[a] = batch

C1_Witness ==
    /\ trigger_behavior = "And"
    /\ NTriggers = 2
    /\ NActions = 2
    /\ batch = "enter"
    /\ activity_counter = 2

C3_OrActiveMeansEntered ==
    (trigger_behavior = "Or" /\ batch # "none" /\ activity_counter > 0) => batch = "enter"

\* C4: a failed enter or leave call does not tear the driver loop down.
C4_ActionFailureKeepsLoop ==
    error = "action" => driver = "running"

\* C5 as claimed, for a loop that a failed trigger sequence ended while the
\* actions were entered: once the driver is gone, the last call every action
\* received was the leave issued at termination.
C5_LeaveOnTermination ==
    (driver = "dropped" /\ error = "trigger" /\ batch = "enter")
        => \A a \in 1..NActions : last_call[a] = "leave"

\* C5 as amended: termination issues no batch; when the terminated driver is
\* discarded every action is dropped exactly once, which takes and kills its
\* recorded child, and no action is dropped before that.
C5_DropOnTermination ==
    /\ [](driver = "dropped" =>
            \A a \in 1..NActions :
                drops[a] = 1 /\ actions[a].child = "None" /\ Live(actions[a]) = 0)
    /\ [](driver # "dropped" => \A a \in 1..NActions : drops[a] = 0)
    /\ [][driver' # "running" /\ (driver # "running" \/ error' = "trigger")
            => (last_call' = last_call /\ batch' = batch)]_vars

C5_Witness ==
    /\ driver = "dropped"
    /\ error = "trigger"
    /\ batch = "enter"
    /\ \E a \in 1..NActions : actions[a].exit_command
    /\ \A a \in 1..NActions : drops[a] = 1 /\ last_call[a] = "enter"

\* C6: no process spawned by enter is ever alive without being the recorded
\* child, whatever the sequence of enter, leave and drop.
C6_NoOrphan ==
    ca.orphans = 0

\* C7: the counter starts at 0, stays within [0, N], is never decremented
\* while 0, and equals the number of triggers whose last event was Active.
C7_CounterBounded ==
    /\ activity_counter \in 0..NTriggers
    /\ activity_counter = Cardinality(ActiveTriggers)
    /\ act = "Inactive" => prev_act_counter > 0
    /\ batch = "none" => activity_counter = 0

C7_Witness ==
    /\ NTriggers = 2
    /\ act = "Inactive"
    /\ prev_act_counter = 2
    /\ activity_counter = 1

\* C8: once a trigger's sequence has failed the loop is over: the driver no
\* longer runs, no further event is processed and no further batch is issued.
C8_TriggerFailureEndsLoop ==
    /\ [](error = "trigger" => driver # "running")
    /\ [][error = "trigger" =>
            UNCHANGED <<streams, activity_counter, prev_act_counter, act, batch,
                        last_call, error>>]_vars

C8_Witness ==
    /\ error = "trigger"
    /\ driver = "failed"
    /\ NTriggers = 2
    /\ activity_counter = 1
    /\ batch = "enter"

\* The Activity sequence that has one event per change of the match state,
\* the match state before the first probe being `was`.
RECURSIVE Edges(_, _, _)
Edges(ps, name, was) ==
    IF ps = <<>> THEN <<>>
    ELSE LET m == (Head(ps) = name)
         IN  (IF m = was THEN <<>> ELSE <<IF m THEN "Active" ELSE "Inactive">>)
                 \o Edges(Tail(ps), name, m)

\* C9: the stream emits exactly one event per match-state change, the events
\* alternate beginning with Active, was_same is the match state of the last
\* probe, and probes [A, A, B, B, A] against A give [Active, Inactive, Active].
C9_EdgeDetection ==
    /\ emitted = Edges(probes, wifi.name, FALSE)
    /\ \A i \in 1..Len(emitted) :
         emitted[i] = (IF i % 2 = 1 THEN "Active" ELSE "Inactive")
    /\ wifi.was_same = (probes # <<>> /\ probes[Len(probes)] = wifi.name)
    /\ (wifi.name = "A" /\ probes = <<"A", "A", "B", "B", "A">>)
         => emitted = <<"Active", "Inactive", "Active">>

C9_Witness ==
    /\ wifi.name = "A"
    /\ probes = <<"A", "A", "B", "B", "A">>
    /\ emitted = <<"Active", "Inactive", "Active">>
    /\ wifi.was_same

\* C10: drop takes the recorded child and kills it: after the drop no child is
\* recorded and the processes left alive are the orphans there were before;
\* after enter followed at once by drop no process is alive.
C10_DropKillsRecordedChild ==
    [][(ca_dropped' /\ ~ca_dropped) =>
          /\ ca'.child = "None"
          /\ Live(ca') = ca.orphans
          /\ (Len(ca_log) = 1 /\ ca_log[1].op = "enter" /\ ca_log[1].res = "Ok")
                => Live(ca') = 0]_vars

C10_Witness ==
    /\ ca_dropped
    /\ Len(ca_log) = 2
    /\ ca_log[1].op = "enter" /\ ca_log[1].res = "Ok"
    /\ ca_log[2].op = "drop" /\ ca_log[2].before = "Alive"
    /\ Live(ca) = 0

\* Some entry of the configuration does not resolve to an action or trigger.
CtorUnresolvable ==
    \/ \E i \in 1..Len(cfg_actions) :
         get_action(cfg_actions[i].name, cfg_actions[i].value) # Resolved
    \/ \E j \in 1..Len(cfg_triggers) :
         get_trigger(cfg_triggers[j].name, cfg_triggers[j].value) # Resolved

\* C11: when an entry is unknown or malformed, drive returns an error (naming
\* the identifier when the name is unknown), and at no point has a process
\* been spawned, a trigger started or a driver been returned.
C11_FailsAtomically ==
    CtorUnresolvable =>
        /\ ctor_spawned = 0
        /\ ctor_listening = 0
        /\ ctor_result # Resolved
        /\ ctor_pc = "done" =>
             /\ ctor_result.kind \in {"UnknownAction", "UnknownTrigger", "InvalidData"}
             /\ ctor_result.kind \in {"UnknownAction", "UnknownTrigger"}
                    => ctor_result.name = "bogus"

\* The leave calls made on the action with no child recorded.
LeavesWithoutChild == {k \in 1..Len(ca_log) : ca_log[k].op = "leave" /\ ca_log[k].before = "None"}

Calls(steps) == {steps[i] : i \in 1..Len(steps)}

\* C14 as stated: a leave with no recorded child makes no kill, returns
\* success, spawns and waits for the leave command when there is one, and has
\* no effect when there is none.
C14_LeaveWithoutChildSucceeds ==
    \A k \in LeavesWithoutChild :
        LET e == ca_log[k]
        IN  /\ "kill" \notin Calls(e.steps)
            /\ e.res = "Ok"
            /\ e.self.exit_command => e.steps = <<"take", "spawn", "wait">>
            /\ ~e.self.exit_command => e.after = e.self /\ e.steps = <<"take">>

\* C14 amended: a leave with no recorded child makes no kill and never fails
\* for want of a child; with a leave command it spawns it and, once spawned,
\* waits for it, and returns an error only when that spawn or wait fails;
\* with no leave command it returns success and has no effect.
C14_LeaveWithoutChildNoKill ==
    \A k \in LeavesWithoutChild :
        LET e == ca_log[k]
        IN  /\ "kill" \notin Calls(e.steps)
            /\ e.after = e.self
            /\ e.res = "Err" => e.self.exit_command
            /\ e.self.exit_command =>
                 /\ e.steps \in {<<"take", "spawn">>, <<"take", "spawn", "wait">>}
                 /\ e.exit_spawned = ("wait" \in Calls(e.steps))
                 /\ e.res = "Ok" => e.steps = <<"take", "spawn", "wait">>
            /\ ~e.self.exit_command =>
                 e.res = "Ok" /\ e.steps = <<"take">> /\ ~e.exit_spawned

C14_Witness ==
    /\ \E k \in LeavesWithoutChild :
         ca_log[k].self.exit_command /\ ca_log[k].res = "Ok" /\ ca_log[k].exit_spawned
    /\ \E k \in LeavesWithoutChild :
         k > 1 /\ ca_log[k - 1].op = "leave" /\ ca_log[k - 1].before = "Alive"

\* C20: every leave takes the record and kills the taken child, if any, before
\* it spawns the leave command, and waits for the leave command after spawning
\* it; a successful leave with a leave command has waited for it; after any
\* leave, successful or failed, no child is recorded.
C20_LeaveOrder ==
    \A k \in 1..Len(ca_log) :
        LET e == ca_log[k]
        IN  e.op = "leave" =>
              /\ e.after.child = "None"
              /\ e.steps[1] = "take"
              /\ e.before # "None" => Len(e.steps) >= 2 /\ e.steps[2] = "kill"
              /\ \A i, j \in 1..Len(e.steps) :
                    /\ e.steps[i] \in {"spawn", "wait"} /\ e.steps[j] \in {"take", "kill"} => j < i
                    /\ e.steps[i] = "spawn" /\ e.steps[j] = "wait" => i < j
              /\ "spawn" \in Calls(e.steps) => e.self.exit_command
              /\ e.self.exit_command /\ e.res = "Ok" =>
                    /\ Len(e.steps) >= 2
                    /\ e.steps[Len(e.steps) - 1] = "spawn"
                    /\ e.steps[Len(e.steps)] = "wait"

C20_Witness ==
    /\ \E k \in 1..Len(ca_log) :
         /\ ca_log[k].op = "leave"
         /\ ca_log[k].before = "Alive"
         /\ ca_log[k].steps = <<"take", "kill", "spawn", "wait">>
         /\ ca_log[k].res = "Ok"
    /\ \E k \in 1..Len(ca_log) :
         ca_log[k].op = "leave" /\ ca_log[k].before = "Exited" /\ ca_log[k].res = "Err"

\* The stream polled over a probe sequence: the events emitted and was_same
\* after every poll.
RECURSIVE polls(_, _)
polls(self, ps) ==
    IF ps = <<>> THEN [emitted |-> <<>>, was_same |-> <<>>]
    ELSE LET p == poll(self, Head(ps))
             rest == polls(p.self, Tail(ps))
         IN  [emitted |-> (IF p.out \in {"Active", "Inactive"} THEN <<p.out>> ELSE <<>>)
                              \o rest.emitted,
              was_same |-> <<p.self.was_same>> \o rest.was_same]

\* The probe results that do not match the configured name.
NoMatch(name) == ProbeOk \ {name}

\* C15: in any probe sequence, putting another non-matching result (no network
\* name, or a name that is not the configured one) in the place of a
\* non-matching result changes neither the events emitted nor was_same after
\* any poll.
C15_NoneIsNoMatch ==
    LET run == polls(WifiStream_new(wifi.name), probes)
    IN  /\ emitted = run.emitted
        /\ probes # <<>> => wifi.was_same = run.was_same[Len(probes)]
        /\ \A i \in 1..Len(probes) : \A q \in NoMatch(wifi.name) :
             probes[i] \in NoMatch(wifi.name) =>
                polls(WifiStream_new(wifi.name), [probes EXCEPT ![i] = q]) = run

C15_Witness ==
    /\ wifi.name = "A"
    /\ probes = <<"A", "None", "A", "B">>
    /\ emitted = <<"Active", "Inactive", "Active", "Inactive">>

\* The contexts of the configuration that do not validate.
Failing == {i \in 1..Len(config.ctxs) : config.ctxs[i].triggers = 0 \/ config.ctxs[i].actions = 0}

\* C16: a context with no triggers gives MissingTriggers, one with triggers
\* and no actions MissingActions, one with both Ok; Config::validate returns
\* Ok iff every context validates, else the error of the first that does not,
\* and it has looked at no context after that one.
C16_Validate ==
    /\ \A c \in Contexts :
         /\ c.triggers = 0 => Context_validate(c) = "MissingTriggers"
         /\ c.triggers # 0 /\ c.actions = 0 => Context_validate(c) = "MissingActions"
         /\ Context_validate(c) = "Ok" <=> (c.triggers # 0 /\ c.actions # 0)
    /\ val_result = "Ok" => Failing = {}
    /\ val_result = "none" => \A i \in Failing : i >= val_next
    /\ val_result \in {"MissingTriggers", "MissingActions"} =>
         /\ Failing # {}
         /\ LET first == CHOOSE i \in Failing : \A j \in Failing : i <= j
            IN  /\ val_next = first + 1
                /\ val_result = (IF config.ctxs[first].triggers = 0 THEN "MissingTriggers"
                                 ELSE "MissingActions")

C16_Witness ==
    /\ config.kind = "Multiple"
    /\ Len(config.ctxs) = 2
    /\ config.ctxs[1] = [triggers |-> 1, actions |-> 1]
    /\ config.ctxs[2] = [triggers |-> 0, actions |-> 0]
    /\ val_result = "MissingTriggers"

\* One trigger, one command action without leave command, the And policy.
C17_Scenario ==
    /\ NTriggers = 1
    /\ NActions = 1
    /\ trigger_behavior = "And"
    /\ ~actions[1].exit_command

\* C17: in that scenario every event is an Active answered by enter or an
\* Inactive answered by leave, in turn.  The enter finds no process of the
\* action alive and makes one spawn call, after which (unless the spawn
\* failed, which ends the loop) exactly one process is alive and recorded.
\* The leave finds that process recorded, kills it and spawns nothing, after
\* which none is alive.  Never is more than one process of the action alive.
C17_EndToEnd ==
    [][C17_Scenario =>
        /\ Live(actions'[1]) <= 1
        /\ activity_counter' # activity_counter =>
             /\ act' = "Active" =>
                  /\ activity_counter' = 1
                  /\ batch' = "enter" /\ last_call'[1] = "enter"
                  /\ actions[1].child = "None" /\ Live(actions[1]) = 0
                  /\ \A f \in possible_faults(actions[1], TRUE) :
                       enter_impl(actions[1], f).steps = <<"spawn">>
                  /\ driver' = "running" =>
                       actions'[1].child = "Alive" /\ Live(actions'[1]) = 1
                  /\ driver' # "running" => Live(actions'[1]) = 0
             /\ act' = "Inactive" =>
                  /\ activity_counter' = 0
                  /\ batch' = "leave" /\ last_call'[1] = "leave"
                  /\ actions[1].child # "None"
                  /\ actions'[1].child = "None" /\ Live(actions'[1]) = 0
                  /\ \A f \in possible_faults(actions[1], FALSE) :
                       /\ leave_impl(actions[1], f).steps = <<"take", "kill">>
                       /\ ~leave_impl(actions[1], f).exit_spawned]_vars

C17_Witness ==
    /\ C17_Scenario
    /\ act = "Inactive"
    /\ batch = "leave"
    /\ prev_act_counter = 1
    /\ activity_counter = 0
    /\ driver = "running"
    /\ actions[1].child = "None"
    /\ Live(actions[1]) = 0

\* C19: in the batch in which a call fails, every action of the context has
\* been invoked: each one's last call is that of the batch, each one is in
\* the state its own enter or leave puts it in (after leave none has a child
\* recorded), whatever the calls on the others returned.
C19_AllInvoked ==
    [][(error = "none" /\ error' = "action") =>
        /\ \A a \in 1..NActions : last_call'[a] = batch'
        /\ \E f \in [1..NActions -> IoFaults] :
             /\ \A a \in 1..NActions : f[a] \in possible_faults(actions[a], batch' = "enter")
             /\ \E a \in 1..NActions : f[a] # "none"
             /\ \A a \in 1..NActions :
                  actions'[a] = IF batch' = "enter" THEN enter_impl(actions[a], f[a]).self
                                ELSE leave_impl(actions[a], f[a]).self
        /\ batch' = "leave" => \A a \in 1..NActions : actions'[a].child = "None"]_vars

C19_Witness ==
    /\ error = "action"
    /\ driver = "failed"
    /\ NActions = 2
    /\ batch = "enter"
    /\ actions[1].child = "None"
    /\ actions[2].child = "Alive"
    /\ \A a \in 1..NActions : last_call[a] = "enter"

\* The reactor can hand context j an event of its stream and run its batch.
CanHandleEvent(j) ==
    ENABLED (\E new_ssid \in ProbeOk, fault \in IoFaults : MultiEvent(j, new_ssid, fault))

\* The step ends the loop of context i on an error of its stream.
StreamFails(i) == contexts[i].error # "trigger" /\ contexts'[i].error = "trigger"

\* C12: a stream error in context i ends the loop of context i and changes
\* nothing in any sibling; a sibling whose loop runs can be handed its next
\* event and issue its batch whenever the reactor thread is free, however many
\* siblings have failed or been discarded.
C12_FailureStaysInContext ==
    /\ [](\A i, j \in 1..NContexts :
            (i # j /\ contexts[i].error = "trigger" /\ contexts[j].driver = "running"
                /\ thread = 0) => CanHandleEvent(j))
    /\ [][\A i \in 1..NContexts :
            StreamFails(i) =>
                /\ contexts'[i].driver = "failed"
                /\ thread' = thread
                /\ \A j \in 1..NContexts : j # i => contexts'[j] = contexts[j]]_vars

C12_Witness ==
    \E i, j \in 1..NContexts :
        /\ i # j
        /\ contexts[i].error = "trigger"
        /\ contexts[i].driver = "dropped"
        /\ contexts[j].driver = "running"
        /\ contexts[j].served
        /\ contexts[j].activity_counter = 1
        /\ contexts[j].action.child = "Alive"

\* C13: while context i is inside a batch (its leave waits for the leave
\* command to exit), a sibling whose loop runs can still be handed the next
\* event of its stream.
C13_SiblingsProgressDuringBatch ==
    \A i, j \in 1..NContexts :
        (i # j /\ contexts[i].pc = "waiting" /\ contexts[j].driver = "running")
            => CanHandleEvent(j)

\* C18: the counter moves only in the step in which the loop, with no batch
\* pending, takes one event of one stream, and it moves by one; while a batch
\* is pending no event is taken, the counter and the branch stay as they are
\* and only the batch's calls touch the actions; the batch is over only when
\* every action of the context has had its call.
C18_NoOverlap ==
    [][/\ activity_counter' # activity_counter =>
            /\ lp_pc = "idle" /\ lp_pc' = "batch" /\ lp_called' = 0
            /\ activity_counter' - activity_counter \in {1, -1}
            /\ prev_act_counter' = activity_counter
            /\ actions' = actions
            /\ \E t \in 1..NTriggers :
                 /\ streams'[t].was_same # streams[t].was_same
                 /\ \A u \in 1..NTriggers : u # t => streams'[u] = streams[u]
       /\ lp_pc = "batch" =>
            /\ activity_counter' = activity_counter
            /\ streams' = streams
            /\ batch' = batch
            /\ lp_called' \in {lp_called, lp_called + 1}
       /\ actions' # actions => lp_pc = "batch" /\ lp_pc' = "batch"
       /\ (lp_pc = "batch" /\ lp_pc' = "idle") =>
            /\ lp_called = NActions
            /\ \A a \in 1..NActions : last_call[a] = batch]_vars

C18_Witness ==
    /\ NTriggers = 2
    /\ NActions = 2
    /\ prev_act_counter = 1
    /\ activity_counter = 2
    /\ lp_pc = "batch"
    /\ lp_called = 1
    /\ last_call[1] = batch
    /\ last_call[2] # batch

\* The enter calls on the action whose spawn failed.
FailedEnters == {k \in 1..Len(ca_log) : ca_log[k].op = "enter" /\ ca_log[k].res = "Err"}

\* C21: an enter whose spawn fails returns the error after that one spawn
\* call and leaves the action as it was: the recorded child, if any, stays
\* recorded, and none is recorded if none was.  An enter returns an error
\* only in that case.
C21_FailedEnterChangesNothing ==
    \A k \in 1..Len(ca_log) :
        LET e == ca_log[k]
        IN  e.op = "enter" =>
              /\ e.steps = <<"spawn">>
              /\ e.res = "Err" =>
                   /\ e.after = e.self
                   /\ e.before = "None" => e.after.child = "None"
              /\ e.res = "Ok" => e.after.child = "Alive"

C21_Witness ==
    /\ \E k \in FailedEnters : ca_log[k].before = "None" /\ ca_log[k].after.child = "None"
    /\ \E k \in FailedEnters : ca_log[k].before = "Alive" /\ ca_log[k].after.child = "Alive"

\* The entry names the command action and its enter line has no command name.
EmptyEnterLine(entry) ==
    /\ trim(entry.name) = "command"
    /\ entry.value.kind \in {"String", "Mapping"}
    /\ entry.value.enter # Absent
    /\ line_parts(entry.value.enter) = <<>>

\* C22: when drive comes to a command action whose enter line is empty or
\* whitespace-only, no action is built and drive is over with an
\* invalid-configuration error.
C22_EmptyLineIsInvalidData ==
    \A i \in 1..Len(cfg_actions) :
        (/\ EmptyEnterLine(cfg_actions[i])
         /\ \A k \in 1..(i - 1) :
              get_action(cfg_actions[k].name, cfg_actions[k].value) = Resolved
         /\ ctor_pc = "done")
            => /\ ctor_built.actions = 0
               /\ ctor_result = InvalidData

\* The step takes an event and issues the enter batch.
IssuesEnter == activity_counter' # activity_counter /\ batch' = "enter"

\* C23: under And and under Or, the batch before an enter batch is a leave
\* batch (or there was none), and when the enter batch is issued no action has
\* a child recorded; so no process of an action is ever alive without being
\* its recorded child.
C23_NoEnterOnRecordedChild ==
    [][/\ IssuesEnter =>
            /\ batch \in {"none", "leave"}
            /\ \A a \in 1..NActions : actions[a].child = "None" /\ last_call[a] # "enter"
       /\ \A a \in 1..NActions : actions'[a].orphans = 0]_vars

C23_Witness ==
    /\ trigger_behavior = "And"
    /\ NTriggers = 2
    /\ batch = "enter"
    /\ act = "Active"
    /\ prev_act_counter = 1
    /\ activity_counter = 2
    /\ NActions = 2
    /\ \A a \in 1..NActions : actions[a].child = "Alive" /\ last_call[a] = "enter"
    /\ driver = "running"

\* C24: once the ended driver is discarded, whatever events came before and
\* whether a stream or an action ended the loop, every action has been
\* dropped once and no process spawned by an enter of any of them is alive,
\* and the step that discards it issues no leave.
C24_NoChildSurvivesDiscard ==
    [][(driver' = "dropped") =>
          /\ \A a \in 1..NActions : Live(actions'[a]) = 0 /\ actions'[a].child = "None"
          /\ driver = "failed" =>
               /\ \A a \in 1..NActions : drops'[a] = drops[a] + 1
               /\ last_call' = last_call
               /\ batch' = batch]_vars

C24_Witness ==
    /\ driver = "dropped"
    /\ error = "trigger"
    /\ trigger_behavior = "And"
    /\ NTriggers = 2
    /\ activity_counter = 2
    /\ batch = "enter"
    /\ NActions = 2
    /\ \A a \in 1..NActions :
         drops[a] = 1 /\ last_call[a] = "enter" /\ Live(actions[a]) = 0

====
